---- MODULE Spec2Model ----
(***************************************************************************)
(* A model of cf-bun-mocks: the D1 adapter layer over the embedded SQL     *)
(* engine (src/src/d1.ts), the migration bootstrapper (createD1Mock) and   *)
(* the workers environment helpers (setupWorkersMock / useWorkersEnv).     *)
(***************************************************************************)
EXTENDS Integers, Sequences, FiniteSets

VARIABLES
    db,         \* D1Mock.db: the embedded engine connection
    stmts,      \* the D1PreparedStatementMock objects: #stmt and #boundValues
    session,    \* whether a D1DatabaseSessionMock has been created
    call,       \* the last API call: operation, adapter, arguments handed to the engine, db before
    ret,        \* what the last API call returned or threw
    lastBind,   \* per adapter, the argument list of its most recent bind call
    batch,      \* the batch call in progress: its for loop's position and results
    mEntries,   \* createD1Mock: what readdirSync lists, in the order it lists it
    mFiles,     \* createD1Mock: files, the filtered and sorted names
    mIdx,       \* createD1Mock: the for loop's position in files
    mDb,        \* createD1Mock: the database of the new D1Mock
    mLog,       \* the files handed to exec so far, with whether exec succeeded
    mOut,       \* what createD1Mock returned or threw
    mPc,        \* where createD1Mock is
    eModule,    \* the moduleMock variable: the object it holds and that object's env field
    eHeap,      \* the env objects ever made, each with its properties
    eMocked,    \* whether mock.module has registered the factory
    eRegs,      \* the useWorkersEnv registrations: the env returned, createEnv, hooks' state
    eLast       \* the last lifecycle event

d1vars == <<db, stmts, session, call, ret, lastBind, batch>>
mvars == <<mEntries, mFiles, mIdx, mDb, mLog, mOut, mPc>>
evars == <<eModule, eHeap, eMocked, eRegs, eLast>>
vars == <<d1vars, mvars, evars>>

\* what each part of the package leaves alone
D1Frame == UNCHANGED <<mvars, evars>>
MigFrame == UNCHANGED <<d1vars, evars>>
EnvFrame == UNCHANGED <<d1vars, mvars>>

----------------------------------------------------------------------------
(* Bounds *)

\* the largest row identifier the engine hands out
MaxId == 2
\* the longest statement list given to batch
MaxBatch == 3
\* the most entries the migrations directory holds
MaxEntries == 3
\* the most useWorkersEnv registrations of a test run
MaxRegs == 2

\* the values a test binds
Values == {"a", "b"}
\* the argument lists a test passes to bind
BindArgs == {<<>>} \cup {<<v>> : v \in Values}
\* the adapter objects a test may hold
Adapters == {"s1", "s2"}
\* a statement object that is not a D1PreparedStatementMock
Foreign == "foreign"

----------------------------------------------------------------------------
(* The embedded SQL engine, as the adapter uses it *)

QInsert == "INSERT INTO users (name) VALUES (?)"
QSelectAll == "SELECT * FROM users"
QSelectByName == "SELECT * FROM users WHERE name = ?"
QDelete == "DELETE FROM users WHERE name = ?"
Queries == {QInsert, QSelectAll, QSelectByName, QDelete}
NoStmt == "none"

Columns == <<"id", "name">>

EmptyDb == [exists |-> FALSE, rows |-> <<>>, lastRowid |-> 0]

Arity(q) == IF q = QSelectAll THEN 0 ELSE 1

IsSelect(q) == q \in {QSelectAll, QSelectByName}

Max(S) == CHOOSE x \in S : \A y \in S : y <= x
Min(S) == CHOOSE x \in S : \A y \in S : x <= y

\* the rowid of the next inserted row: one more than the largest in the table
NextRowid(d) ==
    IF d.rows = <<>> THEN 1 ELSE Max({d.rows[i].id : i \in 1..Len(d.rows)}) + 1

\* whether the engine accepts the argument list for the statement
BindOk(q, args) == Len(args) = Arity(q)

\* whether row r is selected (or deleted) by statement q with args
Matches(r, q, args) ==
    CASE q = QSelectAll -> TRUE
      [] q = QSelectByName -> r.name = args[1]
      [] q = QDelete -> r.name = args[1]
      [] OTHER -> FALSE

MatchIdx(d, q, args) == {i \in 1..Len(d.rows) : Matches(d.rows[i], q, args)}

RECURSIVE Filter(_, _, _, _)
Filter(rows, q, args, keep) ==
    IF rows = <<>> THEN <<>>
    ELSE LET rest == Filter(Tail(rows), q, args, keep)
         IN  IF Matches(Head(rows), q, args) = keep
             THEN <<Head(rows)>> \o rest ELSE rest

\* the database after stepping statement q to completion
Effect(d, q, args) ==
    CASE q = QInsert ->
           [d EXCEPT !.rows = Append(@, [id |-> NextRowid(d), name |-> args[1]]),
                     !.lastRowid = NextRowid(d)]
      [] q = QDelete -> [d EXCEPT !.rows = Filter(@, q, args, FALSE)]
      [] OTHER -> d

\* the number of rows the statement changes
Changes(d, q, args) ==
    CASE q = QInsert -> 1
      [] q = QDelete -> Cardinality(MatchIdx(d, q, args))
      [] OTHER -> 0

\* the rows the statement yields, in table order
ResultRows(d, q, args) ==
    IF IsSelect(q) THEN Filter(d.rows, q, args, TRUE) ELSE <<>>

ToValues(r) == <<r.id, r.name>>

BindError == "wrong number of bound values"

\* Statement.get: steps to the first row
EngineGet(d, q, args) ==
    IF ~BindOk(q, args) THEN [ok |-> FALSE, msg |-> BindError, db |-> d]
    ELSE LET m == MatchIdx(d, q, args)
         IN  [ok |-> TRUE, db |-> Effect(d, q, args),
              row |-> IF ~IsSelect(q) \/ m = {}
                      THEN [null |-> TRUE]
                      ELSE [null |-> FALSE, row |-> d.rows[Min(m)]]]

\* Statement.all: every row as an object
EngineAll(d, q, args) ==
    IF ~BindOk(q, args) THEN [ok |-> FALSE, msg |-> BindError, db |-> d]
    ELSE [ok |-> TRUE, db |-> Effect(d, q, args), rows |-> ResultRows(d, q, args)]

\* Statement.run: { changes, lastInsertRowid }
EngineRun(d, q, args) ==
    IF ~BindOk(q, args) THEN [ok |-> FALSE, msg |-> BindError, db |-> d]
    ELSE [ok |-> TRUE, db |-> Effect(d, q, args),
          changes |-> Changes(d, q, args),
          lastInsertRowid |-> Effect(d, q, args).lastRowid]

\* Statement.values: every row as an array of values
EngineValues(d, q, args) ==
    IF ~BindOk(q, args) THEN [ok |-> FALSE, msg |-> BindError, db |-> d]
    ELSE LET rs == ResultRows(d, q, args)
         IN  [ok |-> TRUE, db |-> Effect(d, q, args),
              values |-> [i \in 1..Len(rs) |-> ToValues(rs[i])]]

\* Statement.columnNames
EngineColumnNames(q) == IF IsSelect(q) THEN Columns ELSE <<>>

----------------------------------------------------------------------------
(* Database.run(text): raw SQL text through the engine *)

XCreate == "CREATE TABLE users (id INTEGER PRIMARY KEY, name TEXT)"
XInsert == "INSERT INTO users (name) VALUES ('a')"
XDeleteAll == "DELETE FROM users"
XBogus == "SELEC 1"
ExecTexts == {XCreate, XInsert, XDeleteAll, XBogus}

EngineExec(d, text) ==
    CASE text = XCreate ->
           IF d.exists
           THEN [ok |-> FALSE, msg |-> "table users already exists", db |-> d]
           ELSE [ok |-> TRUE, changes |-> 0, db |-> [d EXCEPT !.exists = TRUE]]
      [] text = XInsert ->
           IF ~d.exists
           THEN [ok |-> FALSE, msg |-> "no such table: users", db |-> d]
           ELSE [ok |-> TRUE, changes |-> 1, db |-> Effect(d, QInsert, <<"a">>)]
      [] text = XDeleteAll ->
           IF ~d.exists
           THEN [ok |-> FALSE, msg |-> "no such table: users", db |-> d]
           ELSE [ok |-> TRUE, changes |-> Len(d.rows), db |-> [d EXCEPT !.rows = <<>>]]
      [] OTHER -> [ok |-> FALSE, msg |-> "near \"SELEC\": syntax error", db |-> d]

\* Database.prepare(text): compiles against the schema
EnginePrepare(d, q) ==
    IF d.exists THEN [ok |-> TRUE] ELSE [ok |-> FALSE, msg |-> "no such table: users"]

\* the rows stay within the identifiers the model hands out
Within(d) == \A i \in 1..Len(d.rows) : d.rows[i].id <= MaxId

\* an error object: who created it, and its message as the parts concatenated
EngineError(m) == [origin |-> "engine", msg |-> <<m>>]

----------------------------------------------------------------------------
(* D1PreparedStatementMock *)

NewStmt(q) == [sql |-> q, boundValues |-> <<>>]

\* a bind that adds to the values bound before
BindValuesMerged(old, values) == old \o values

\* bind: this.#boundValues = values
BindValues(old, values) == values

\* the arguments an execution spreads into the engine call: ...this.#boundValues
ExecArgs(s) == s.boundValues

\* a run() that reports a change whatever the count
RunEnvelopeAlwaysChanged(c) ==
    [success |-> TRUE,
     meta |-> [duration |-> 0, size_after |-> 0, rows_read |-> 0,
               rows_written |-> c.changes,
               last_row_id |-> c.lastInsertRowid,
               changed_db |-> c.changes >= 0,
               changes |-> c.changes],
     results |-> <<>>]

\* the result envelope of run()
RunEnvelope(c) ==
    [success |-> TRUE,
     meta |-> [duration |-> 0, size_after |-> 0, rows_read |-> 0,
               rows_written |-> c.changes,
               last_row_id |-> c.lastInsertRowid,
               changed_db |-> c.changes > 0,
               changes |-> c.changes],
     results |-> <<>>]

\* an all() that counts its rows as written
AllEnvelopeWritten(results) ==
    [success |-> TRUE,
     meta |-> [duration |-> 0, size_after |-> 0, rows_read |-> Len(results),
               rows_written |-> Len(results), last_row_id |-> 0,
               changed_db |-> Len(results) > 0, changes |-> 0],
     results |-> results]

\* the result envelope of all()
AllEnvelope(results) ==
    [success |-> TRUE,
     meta |-> [duration |-> 0, size_after |-> 0, rows_read |-> Len(results),
               rows_written |-> 0, last_row_id |-> 0, changed_db |-> FALSE,
               changes |-> 0],
     results |-> results]

NoCol == "none"

\* a first() that passes the engine's undefined through
FirstResultUndefined(result, colName) ==
    IF result.null THEN [kind |-> "undefined"]
    ELSE IF colName # NoCol
         THEN [kind |-> "value", value |-> result.row[colName]]
         ELSE [kind |-> "row", row |-> result.row]

\* what first(colName) makes of the row the engine returned
FirstResult(result, colName) ==
    IF result.null THEN [kind |-> "null"]
    ELSE IF colName # NoCol
         THEN [kind |-> "value", value |-> result.row[colName]]
         ELSE [kind |-> "row", row |-> result.row]

\* a raw() that knows no columnNames option
RawResultNoHeader(values, columnNames, withNames) == values

\* what raw(options) makes of the engine's values and column names
RawResult(values, columnNames, withNames) ==
    IF withNames THEN <<columnNames>> \o values ELSE values

\* each method against database d: the new database and the value or the error
StmtFirst(d, s, colName) ==
    LET e == EngineGet(d, s.sql, ExecArgs(s))
    IN  IF e.ok THEN [ok |-> TRUE, db |-> e.db, value |-> FirstResult(e.row, colName)]
        ELSE [ok |-> FALSE, db |-> e.db, err |-> EngineError(e.msg)]

StmtRun(d, s) ==
    LET e == EngineRun(d, s.sql, ExecArgs(s))
    IN  IF e.ok THEN [ok |-> TRUE, db |-> e.db,
                      value |-> [kind |-> "result", env |-> RunEnvelope(e)]]
        ELSE [ok |-> FALSE, db |-> e.db, err |-> EngineError(e.msg)]

StmtAll(d, s) ==
    LET e == EngineAll(d, s.sql, ExecArgs(s))
    IN  IF e.ok THEN [ok |-> TRUE, db |-> e.db,
                      value |-> [kind |-> "result", env |-> AllEnvelope(e.rows)]]
        ELSE [ok |-> FALSE, db |-> e.db, err |-> EngineError(e.msg)]

StmtRaw(d, s, withNames) ==
    LET e == EngineValues(d, s.sql, ExecArgs(s))
    IN  IF e.ok
        THEN [ok |-> TRUE, db |-> e.db,
              value |-> [kind |-> "raw",
                         rows |-> RawResult(e.values, EngineColumnNames(s.sql), withNames)]]
        ELSE [ok |-> FALSE, db |-> e.db, err |-> EngineError(e.msg)]

Returned(r) == IF r.ok THEN r.value ELSE [kind |-> "throw", err |-> r.err]

----------------------------------------------------------------------------
(* D1Mock *)

\* stmt instanceof D1PreparedStatementMock
IsMock(x) == x # Foreign

\* a loop whose statements leave no trace: each runs and its effect is dropped
BatchIterRolledBack(x, s, d, results) ==
    IF IsMock(x)
    THEN LET r == StmtAll(d, s)
         IN  IF r.ok THEN [ok |-> TRUE, db |-> d, results |-> Append(results, r.value.env)]
             ELSE [ok |-> FALSE, db |-> d, err |-> r.err]
    ELSE [ok |-> TRUE, db |-> d, results |-> results]

\* a loop that puts each envelope in front of the earlier ones
BatchIterUnshift(x, s, d, results) ==
    IF IsMock(x)
    THEN LET r == StmtAll(d, s)
         IN  IF r.ok THEN [ok |-> TRUE, db |-> r.db, results |-> <<r.value.env>> \o results]
             ELSE [ok |-> FALSE, db |-> r.db, err |-> r.err]
    ELSE [ok |-> TRUE, db |-> d, results |-> results]

\* one iteration of batch's for loop, on element x whose adapter state is s
BatchIter(x, s, d, results) ==
    IF IsMock(x)
    THEN LET r == StmtAll(d, s)
         IN  IF r.ok THEN [ok |-> TRUE, db |-> r.db, results |-> Append(results, r.value.env)]
             ELSE [ok |-> FALSE, db |-> r.db, err |-> r.err]
    ELSE [ok |-> TRUE, db |-> d, results |-> results]

\* the message of the error exec throws: a template of four parts
ExecErrorMessage(m, query) == <<"D1Mock exec failed: ", m, "\nQuery: ", query>>

\* the wall-clock durations exec may measure
Durations == {0, 1}

\* an exec that lets the engine's error through
D1ExecRethrow(d, query, duration) ==
    LET e == EngineExec(d, query)
    IN  IF e.ok
        THEN [ok |-> TRUE, db |-> e.db,
              value |-> [kind |-> "exec", count |-> e.changes, duration |-> duration]]
        ELSE [ok |-> FALSE, db |-> e.db, err |-> EngineError(e.msg)]

D1Exec(d, query, duration) ==
    LET e == EngineExec(d, query)
    IN  IF e.ok
        THEN [ok |-> TRUE, db |-> e.db,
              value |-> [kind |-> "exec", count |-> e.changes, duration |-> duration]]
        ELSE [ok |-> FALSE, db |-> e.db,
              err |-> [origin |-> "D1Mock", msg |-> ExecErrorMessage(e.msg, query)]]

----------------------------------------------------------------------------
(* The operations a test performs on one D1Mock.  The test awaits each call *)
(* before it makes the next one.                                            *)

Prepared == {a \in Adapters : stmts[a].sql # NoStmt}

NoBatch == [pc |-> "idle"]

Idle == batch.pc = "idle"

InitD1 ==
    /\ db = EmptyDb
    /\ stmts = [a \in Adapters |-> NewStmt(NoStmt)]
    /\ session = FALSE
    /\ call = [op |-> "new"]
    /\ ret = [kind |-> "none"]
    /\ lastBind = [a \in Adapters |-> <<>>]
    /\ batch = NoBatch

Prepare(a, q) ==
    /\ Idle
    /\ stmts[a].sql = NoStmt
    /\ call' = [op |-> "prepare", stmt |-> a, text |-> q, pre |-> db]
    /\ IF EnginePrepare(db, q).ok
       THEN /\ stmts' = [stmts EXCEPT ![a] = NewStmt(q)]
            /\ ret' = [kind |-> "stmt", stmt |-> a]
       ELSE /\ stmts' = stmts
            /\ ret' = [kind |-> "throw", err |-> EngineError(EnginePrepare(db, q).msg)]
    /\ UNCHANGED <<db, session, lastBind, batch>>
    /\ D1Frame

Bind(a, values) ==
    /\ Idle
    /\ a \in Prepared
    /\ stmts' = [stmts EXCEPT ![a].boundValues = BindValues(@, values)]
    /\ lastBind' = [lastBind EXCEPT ![a] = values]
    /\ call' = [op |-> "bind", stmt |-> a, args |-> values, pre |-> db]
    /\ ret' = [kind |-> "stmt", stmt |-> a]
    /\ UNCHANGED <<db, session, batch>>
    /\ D1Frame

\* an execution call on adapter a whose outcome is r
Execute(op, a, r, opt) ==
    /\ Within(r.db)
    /\ db' = r.db
    /\ call' = [op |-> op, stmt |-> a, args |-> ExecArgs(stmts[a]), pre |-> db, opt |-> opt]
    /\ ret' = Returned(r)
    /\ UNCHANGED <<stmts, session, lastBind, batch>>
    /\ D1Frame

First(a, colName) ==
    /\ Idle
    /\ a \in Prepared
    /\ Execute("first", a, StmtFirst(db, stmts[a], colName), colName)

Run(a) ==
    /\ Idle
    /\ a \in Prepared
    /\ Execute("run", a, StmtRun(db, stmts[a]), NoCol)

All(a) ==
    /\ Idle
    /\ a \in Prepared
    /\ Execute("all", a, StmtAll(db, stmts[a]), NoCol)

Raw(a, withNames) ==
    /\ Idle
    /\ a \in Prepared
    /\ Execute("raw", a, StmtRaw(db, stmts[a], withNames), withNames)

Exec(query, duration) ==
    LET r == D1Exec(db, query, duration)
    IN  /\ Idle
        /\ Within(r.db)
        /\ db' = r.db
        /\ call' = [op |-> "exec", text |-> query, pre |-> db]
        /\ ret' = Returned(r)
        /\ UNCHANGED <<stmts, session, lastBind, batch>>
        /\ D1Frame

WithSession ==
    /\ Idle
    /\ ~session
    /\ session' = TRUE
    /\ call' = [op |-> "withSession", pre |-> db]
    /\ ret' = [kind |-> "session"]
    /\ UNCHANGED <<db, stmts, lastBind, batch>>
    /\ D1Frame

\* batch is entered: const results = []
BatchStart(via) ==
    /\ Idle
    /\ batch' = [pc |-> "loop", via |-> via, input |-> <<>>, results |-> <<>>, pre |-> db]
    /\ call' = [op |-> "batch entered"]
    /\ ret' = [kind |-> "pending"]
    /\ UNCHANGED <<db, stmts, session, lastBind>>
    /\ D1Frame

\* D1Mock.batch
DbBatch == BatchStart("db")

\* D1DatabaseSessionMock.batch: forwards to the database
SessionBatch == session /\ BatchStart("session")

\* the for loop takes the next element x of the statement list
BatchStep(x) ==
    /\ batch.pc = "loop"
    /\ Len(batch.input) < MaxBatch
    /\ LET r == BatchIter(x, IF IsMock(x) THEN stmts[x] ELSE NewStmt(NoStmt),
                          db, batch.results)
       IN  /\ Within(r.db)
           /\ db' = r.db
           /\ IF r.ok
              THEN /\ batch' = [batch EXCEPT !.input = Append(@, x), !.results = r.results]
                   /\ UNCHANGED <<call, ret>>
              ELSE /\ batch' = NoBatch
                   /\ call' = [op |-> "batch", via |-> batch.via,
                               input |-> Append(batch.input, x), pre |-> batch.pre]
                   /\ ret' = [kind |-> "throw", err |-> r.err]
    /\ UNCHANGED <<stmts, session, lastBind>>
    /\ D1Frame

\* the statement list is exhausted: return results
BatchReturn ==
    /\ batch.pc = "loop"
    /\ batch' = NoBatch
    /\ call' = [op |-> "batch", via |-> batch.via, input |-> batch.input, pre |-> batch.pre]
    /\ ret' = [kind |-> "batch", envs |-> batch.results]
    /\ UNCHANGED <<db, stmts, session, lastBind>>
    /\ D1Frame

\* a test driving statements one call at a time
NextStmt ==
    \/ \E a \in Adapters, q \in Queries : Prepare(a, q)
    \/ \E a \in Adapters, values \in BindArgs : Bind(a, values)
    \/ \E a \in Adapters, c \in {NoCol, "id", "name"} : First(a, c)
    \/ \E a \in Adapters : Run(a)
    \/ \E a \in Adapters : All(a)
    \/ \E a \in Adapters, withNames \in BOOLEAN : Raw(a, withNames)
    \/ \E query \in ExecTexts, duration \in Durations : Exec(query, duration)


\* a test driving statements through all() and batch
NextBatch ==
    \/ \E a \in Adapters, q \in Queries : Prepare(a, q)
    \/ \E a \in Adapters, values \in BindArgs : Bind(a, values)
    \/ \E a \in Adapters : All(a)
    \/ \E query \in ExecTexts, duration \in Durations : Exec(query, duration)
    \/ WithSession
    \/ DbBatch
    \/ SessionBatch
    \/ \E x \in Prepared \cup {Foreign} : BatchStep(x)
    \/ BatchReturn


----------------------------------------------------------------------------
(* createD1Mock *)

\* the names a migrations directory may hold
DirNames == {"1.sql", "2.sql", "10.sql", "1-a.sql", "2.sql.bak"}

\* a name's UTF-16 code units
CodeUnits(f) ==
    CASE f = "1.sql" -> <<49, 46, 115, 113, 108>>
      [] f = "2.sql" -> <<50, 46, 115, 113, 108>>
      [] f = "10.sql" -> <<49, 48, 46, 115, 113, 108>>
      [] f = "1-a.sql" -> <<49, 45, 97, 46, 115, 113, 108>>
      [] f = "2.sql.bak" -> <<50, 46, 115, 113, 108, 46, 98, 97, 107>>
      [] f = ".sql" -> <<46, 115, 113, 108>>

\* String.prototype.endsWith
EndsWith(f, suffix) ==
    LET u == CodeUnits(f)
        v == CodeUnits(suffix)
    IN  /\ Len(u) >= Len(v)
        /\ SubSeq(u, Len(u) - Len(v) + 1, Len(u)) = v

\* the order of Array.prototype.sort without a comparator: by code units
RECURSIVE UnitsLess(_, _)
UnitsLess(u, v) ==
    IF v = <<>> THEN FALSE
    ELSE IF u = <<>> THEN TRUE
    ELSE IF Head(u) # Head(v) THEN Head(u) < Head(v)
    ELSE UnitsLess(Tail(u), Tail(v))

NameLess(f, g) == UnitsLess(CodeUnits(f), CodeUnits(g))

\* .filter((file) => file.endsWith(".sql"))
RECURSIVE FilterSql(_)
FilterSql(names) ==
    IF names = <<>> THEN <<>>
    ELSE IF EndsWith(Head(names), ".sql")
         THEN <<Head(names)>> \o FilterSql(Tail(names))
         ELSE FilterSql(Tail(names))

\* name put into the sorted list at its place
RECURSIVE InsertSorted(_, _)
InsertSorted(name, sorted) ==
    IF sorted = <<>> THEN <<name>>
    ELSE IF NameLess(name, Head(sorted)) THEN <<name>> \o sorted
    ELSE <<Head(sorted)>> \o InsertSorted(name, Tail(sorted))

\* a listing left in the order readdirSync gave
SortNamesNone(names) == names

\* .sort()
RECURSIVE SortNames(_)
SortNames(names) ==
    IF names = <<>> THEN <<>>
    ELSE InsertSorted(Head(names), SortNames(Tail(names)))

\* the texts a migration file may hold
MigTexts == {XCreate, XInsert, XBogus}

\* the message of the error createD1Mock throws
MigrationErrorMessage(file, m) == <<"Failed to execute migration ", file, ": ">> \o m

\* the listings of a directory: its entries, each once, in any order
Listings ==
    {l \in UNION {[1..n -> DirNames] : n \in 0..MaxEntries} :
        \A i, j \in 1..Len(l) : i # j => l[i] # l[j]}

\* createD1Mock about to run on a directory listing l
MigAt(l) ==
    /\ mEntries = l
    /\ mFiles = <<>>
    /\ mIdx = 1
    /\ mDb = EmptyDb
    /\ mLog = <<>>
    /\ mOut = [kind |-> "none"]
    /\ mPc = "start"

InitMig == \E l \in Listings : MigAt(l)

\* readdirSync, filter, sort, new D1Mock(":memory:")
MigStart ==
    /\ mPc = "start"
    /\ mFiles' = SortNames(FilterSql(mEntries))
    /\ mDb' = EmptyDb
    /\ mPc' = "loop"
    /\ UNCHANGED <<mEntries, mIdx, mLog, mOut>>
    /\ MigFrame

\* one iteration of the for loop: the file's text is read and handed to exec
MigStep(text, duration) ==
    /\ mPc = "loop"
    /\ mIdx <= Len(mFiles)
    /\ LET file == mFiles[mIdx]
           r == D1Exec(mDb, text, duration)
       IN  /\ mLog' = Append(mLog, [file |-> file, ok |-> r.ok])
           /\ mDb' = r.db
           /\ IF r.ok
              THEN /\ mIdx' = mIdx + 1
                   /\ UNCHANGED <<mOut, mPc>>
              ELSE /\ mOut' = [kind |-> "throw",
                               err |-> [origin |-> "createD1Mock",
                                        msg |-> MigrationErrorMessage(file, r.err.msg)]]
                   /\ mPc' = "threw"
                   /\ UNCHANGED mIdx
    /\ UNCHANGED <<mEntries, mFiles>>
    /\ MigFrame

\* the loop is over: return db
MigReturn ==
    /\ mPc = "loop"
    /\ mIdx > Len(mFiles)
    /\ mOut' = [kind |-> "db", db |-> mDb]
    /\ mPc' = "returned"
    /\ UNCHANGED <<mEntries, mFiles, mIdx, mDb, mLog>>
    /\ MigFrame

NextMig ==
    \/ MigStart
    \/ \E text \in MigTexts, duration \in Durations : MigStep(text, duration)
    \/ MigReturn

----------------------------------------------------------------------------
(* setupWorkersMock and useWorkersEnv *)

\* what a createEnv or createMock callback may make: properties as key-value pairs
EnvShapes ==
    {{}, {<<"DB", "d1">>}, {<<"DB", "d1">>, <<"API_KEY", "test-key">>},
     {<<"API_KEY", "other-key">>}}

Keys(props) == {p[1] : p \in props}

\* for (const key in env) delete env[key]
DeleteKeys(props) == {}

\* Object.assign(target, source)
Assign(target, source) ==
    {p \in target : p[1] \notin Keys(source)} \cup source

InitEnv ==
    /\ eHeap = <<{}>>
    /\ eModule = [id |-> 1, env |-> 1]
    /\ eMocked = FALSE
    /\ eRegs = <<>>
    /\ eLast = [ev |-> "load"]

\* setupWorkersMock(createMock?), in the preload script, before any test file
SetupWorkersMock(given, shape) ==
    /\ ~eMocked
    /\ eRegs = <<>>
    /\ IF given
       THEN /\ eHeap' = Append(eHeap, shape)
            /\ eModule' = [id |-> eModule.id + 1, env |-> Len(eHeap) + 1]
       ELSE UNCHANGED <<eHeap, eModule>>
    /\ eMocked' = TRUE
    /\ eLast' = [ev |-> "setup"]
    /\ UNCHANGED eRegs
    /\ EnvFrame

\* useWorkersEnv(createEnv): registers the hooks and returns moduleMock.env
UseWorkersEnv(shape) ==
    /\ eMocked
    /\ Len(eRegs) < MaxRegs
    /\ eRegs' = Append(eRegs, [env |-> eModule.env, createEnv |-> shape, over |-> FALSE])
    /\ eLast' = [ev |-> "useWorkersEnv", reg |-> Len(eRegs) + 1]
    /\ UNCHANGED <<eModule, eHeap, eMocked>>
    /\ EnvFrame

\* the beforeEach hook of registration i
BeforeEach(i) ==
    /\ i \in 1..Len(eRegs)
    /\ ~eRegs[i].over
    /\ eHeap' = [eHeap EXCEPT ![eModule.env] = Assign(DeleteKeys(@), eRegs[i].createEnv)]
    /\ eLast' = [ev |-> "beforeEach", reg |-> i]
    /\ UNCHANGED <<eModule, eMocked, eRegs>>
    /\ EnvFrame

\* the afterAll hook of registration i: moduleMock.env = {}
AfterAll(i) ==
    /\ i \in 1..Len(eRegs)
    /\ ~eRegs[i].over
    /\ eHeap' = Append(eHeap, {})
    /\ eModule' = [eModule EXCEPT !.env = Len(eHeap) + 1]
    /\ eRegs' = [eRegs EXCEPT ![i].over = TRUE]
    /\ eLast' = [ev |-> "afterAll", reg |-> i]
    /\ UNCHANGED eMocked
    /\ EnvFrame

NextEnv ==
    \/ \E given \in BOOLEAN, shape \in EnvShapes : SetupWorkersMock(given, shape)
    \/ \E shape \in EnvShapes : UseWorkersEnv(shape)
    \/ \E i \in 1..MaxRegs : BeforeEach(i)
    \/ \E i \in 1..MaxRegs : AfterAll(i)

----------------------------------------------------------------------------
(* Specifications: one part of the package at work, the others at rest *)

InitAtRest == InitD1 /\ MigAt(<<>>) /\ InitEnv

\* statements driven one call at a time
SpecStmt == InitAtRest /\ [][NextStmt]_vars

\* statements driven through all() and batch
SpecBatch == InitAtRest /\ [][NextBatch]_vars

InitDir == InitD1 /\ InitMig /\ InitEnv

\* createD1Mock on a directory
SpecMig == InitDir /\ [][NextMig]_vars

\* the lifecycle of the workers environment
SpecEnv == InitAtRest /\ [][NextEnv]_vars

----------------------------------------------------------------------------
(* Properties of the statement adapter *)

ExecOps == {"first", "all", "run", "raw"}

\* the statement the last call ran: the adapter's SQL with the arguments it passed
CalledStmt == [sql |-> stmts[call.stmt].sql, boundValues |-> call.args]

Ids(d) == {d.rows[i].id : i \in 1..Len(d.rows)}

\* the rows one database has and the other has not
RowsAffected(before, after) ==
    Cardinality((Ids(before) \ Ids(after)) \cup (Ids(after) \ Ids(before)))

\* C3: every successful run() returns success true, results empty, rows_written
\* and changes both equal to the number of rows the execution affected, and
\* changed_db true exactly when changes > 0.
RunEnvelopeShape ==
    (call.op = "run" /\ ret.kind = "result") =>
        /\ ret.env.success = TRUE
        /\ ret.env.results = <<>>
        /\ ret.env.meta.rows_written = RowsAffected(call.pre, db)
        /\ ret.env.meta.changes = RowsAffected(call.pre, db)
        /\ ret.env.meta.changed_db = (ret.env.meta.changes > 0)

\* a run() that deleted two rows
RunDeletedTwo ==
    /\ call.op = "run"
    /\ ret.kind = "result"
    /\ Len(call.pre.rows) = 2
    /\ db.rows = <<>>

\* C4: every execution hands the engine exactly the argument list of the
\* adapter's most recent bind (the empty list if it was never bound); bind
\* replaces the bound values and returns the same adapter; an execution leaves
\* the bound values as they were.
BindReplaces ==
    /\ \A a \in Adapters : stmts[a].boundValues = lastBind[a]
    /\ call.op \in ExecOps => call.args = lastBind[call.stmt]
    /\ call.op = "bind" =>
           /\ ret = [kind |-> "stmt", stmt |-> call.stmt]
           /\ stmts[call.stmt].boundValues = call.args

\* an execution that used a bound value and succeeded, on an adapter whose
\* sibling holds other values
ExecutedWithBound ==
    /\ call.op \in ExecOps
    /\ call.args = <<"b">>
    /\ ret.kind # "throw"
    /\ \E a \in Adapters : a # call.stmt /\ lastBind[a] = <<"a">>

\* C6: first() without a column name returns null when the statement with the
\* bound values matches no row, and otherwise the first row of what all()
\* returns for the same statement, values and database.
FirstIsHeadOfAll ==
    (call.op = "first" /\ call.opt = NoCol /\ ret.kind # "throw") =>
        LET a == StmtAll(call.pre, CalledStmt)
        IN  /\ a.ok
            /\ IF a.value.env.results = <<>>
               THEN ret = [kind |-> "null"]
               ELSE ret = [kind |-> "row", row |-> Head(a.value.env.results)]

\* first() returned the second row of the table, the only one matching
FirstSkippedARow ==
    /\ call.op = "first"
    /\ call.opt = NoCol
    /\ ret.kind = "row"
    /\ Len(call.pre.rows) = 2
    /\ ret.row = call.pre.rows[2]

\* C7: raw({columnNames: true}) returns row count + 1 elements, the column
\* names first and then, position by position, the values of each row of
\* all(); raw() without columnNames returns only the rows' values.
RawShape ==
    (call.op = "raw" /\ ret.kind = "raw") =>
        LET a == StmtAll(call.pre, CalledStmt).value.env.results
            cols == EngineColumnNames(CalledStmt.sql)
            off == IF call.opt THEN 1 ELSE 0
        IN  /\ Len(ret.rows) = Len(a) + off
            /\ call.opt => ret.rows[1] = cols
            /\ \A i \in 1..Len(a) :
                   /\ Len(ret.rows[i + off]) = Len(cols)
                   /\ \A j \in 1..Len(cols) : ret.rows[i + off][j] = a[i][cols[j]]

\* raw with column names over two rows
RawWithHeader ==
    /\ call.op = "raw"
    /\ ret.kind = "raw"
    /\ call.opt = TRUE
    /\ Len(ret.rows) = 3

Contains(parts, x) == \E i \in 1..Len(parts) : parts[i] = x

\* C8: when the engine fails on the text given to exec, exec returns no result
\* and throws a new error whose message holds the engine's message and the
\* query text; the engine's own error is not what is thrown.
ExecWrapsErrors ==
    (call.op = "exec" /\ ~EngineExec(call.pre, call.text).ok) =>
        /\ ret.kind = "throw"
        /\ ret.err.origin = "D1Mock"
        /\ Contains(ret.err.msg, EngineExec(call.pre, call.text).msg)
        /\ Contains(ret.err.msg, call.text)

\* exec failed on a well-formed statement because the table was missing
ExecFailedNoTable ==
    /\ call.op = "exec"
    /\ call.text = XInsert
    /\ ret.kind = "throw"

----------------------------------------------------------------------------
(* Properties of batch *)

Sql(x) == stmts[x].sql
Args(x) == stmts[x].boundValues

\* the database after the first k statements of input have run one after
\* another, starting from d
RECURSIVE DbAfter(_, _, _)
DbAfter(input, k, d) ==
    IF k = 0 THEN d
    ELSE LET before == DbAfter(input, k - 1, d)
         IN  IF IsMock(input[k]) THEN Effect(before, Sql(input[k]), Args(input[k]))
             ELSE before

\* the positions of the input holding a D1PreparedStatementMock, ascending
MockPositions(input) ==
    LET T(i) == IsMock(input[i])
    IN  SelectSeq([i \in 1..Len(input) |-> i], T)

AllMock(input) == \A i \in 1..Len(input) : IsMock(input[i])

BatchReturned == call.op = "batch" /\ ret.kind = "batch"

\* C1: batch runs its statements one after another in the given order: each
\* statement's rows are those it yields on the database as left by all the
\* statements before it, and the database ends as left by the last.
BatchSequential ==
    (BatchReturned /\ AllMock(call.input)) =>
        /\ \A i \in 1..Len(call.input) :
               ret.envs[i].results =
                   ResultRows(DbAfter(call.input, i - 1, call.pre),
                              Sql(call.input[i]), Args(call.input[i]))
        /\ db = DbAfter(call.input, Len(call.input), call.pre)

\* batch([insertA, insertB, selectAll]) on an empty table: the third envelope
\* holds two rows
BatchInsertInsertSelect ==
    /\ BatchReturned
    /\ call.pre.rows = <<>>
    /\ Len(call.input) = 3
    /\ AllMock(call.input)
    /\ Sql(call.input[1]) = QInsert
    /\ Sql(call.input[2]) = QInsert
    /\ Sql(call.input[3]) = QSelectAll
    /\ Len(ret.envs[3].results) = 2

\* C2 as stated: the envelopes are index-aligned with the input, one per
\* input statement.
BatchIndexAligned ==
    BatchReturned =>
        /\ Len(ret.envs) = Len(call.input)
        /\ \A i \in 1..Len(call.input) :
               IsMock(call.input[i]) =>
                   ret.envs[i] =
                       StmtAll(DbAfter(call.input, i - 1, call.pre),
                               stmts[call.input[i]]).value.env

\* C2 amended: the envelopes are index-aligned with the input's
\* D1PreparedStatementMock statements, in input order; other statements get
\* no envelope.
BatchAlignedWithMocks ==
    BatchReturned =>
        LET p == MockPositions(call.input)
        IN  /\ Len(ret.envs) = Len(p)
            /\ \A j \in 1..Len(p) :
                   ret.envs[j] =
                       StmtAll(DbAfter(call.input, p[j] - 1, call.pre),
                               stmts[call.input[p[j]]]).value.env

\* a session's batch of three adapter statements returned three envelopes
\* that are not all alike
SessionBatchOfThree ==
    /\ BatchReturned
    /\ call.via = "session"
    /\ Len(call.input) = 3
    /\ AllMock(call.input)
    /\ Len(ret.envs) = 3
    /\ ret.envs[1] # ret.envs[3]

WriteMetaZero(e) ==
    /\ e.meta.rows_written = 0
    /\ e.meta.changes = 0
    /\ e.meta.last_row_id = 0
    /\ e.meta.changed_db = FALSE
    /\ e.meta.rows_read = Len(e.results)

\* C10: every envelope made by all(), those batch collects included, has
\* rows_written, changes and last_row_id 0, changed_db false and rows_read
\* equal to the number of its results, whatever the statement did.
AllPathMetaZero ==
    /\ (call.op = "all" /\ ret.kind = "result") => WriteMetaZero(ret.env)
    /\ BatchReturned => \A i \in 1..Len(ret.envs) : WriteMetaZero(ret.envs[i])
    /\ batch.pc = "loop" =>
           \A i \in 1..Len(batch.results) : WriteMetaZero(batch.results[i])

\* a batch whose statements inserted rows
BatchInserted ==
    /\ BatchReturned
    /\ Len(ret.envs) >= 1
    /\ Len(db.rows) > Len(call.pre.rows)

----------------------------------------------------------------------------
(* Properties of createD1Mock *)

\* the directory's entries ending in .sql
SqlNames(entries) ==
    {entries[i] : i \in {j \in 1..Len(entries) : EndsWith(entries[j], ".sql")}}

\* the names of S in ascending order: each at the place given by how many
\* names come before it
Ascending(S) ==
    [i \in 1..Cardinality(S) |->
        CHOOSE f \in S : Cardinality({g \in S : NameLess(g, f)}) = i - 1]

\* C5: the files handed to exec are the sorted .sql entries up to and
\* including the first whose execution fails; none follows a failure; the
\* error thrown names the failing file; a database is returned exactly when
\* every file succeeded.
MigrationFailFast ==
    LET sorted == Ascending(SqlNames(mEntries))
        n == Len(mLog)
    IN  mPc # "start" =>
            /\ n <= Len(sorted)
            /\ \A i \in 1..n : mLog[i].file = sorted[i]
            /\ \A i \in 1..(n - 1) : mLog[i].ok
            /\ mPc = "loop" => (mOut.kind = "none" /\ \A i \in 1..n : mLog[i].ok)
            /\ mPc = "threw" =>
                   /\ n >= 1
                   /\ ~mLog[n].ok
                   /\ mOut.kind = "throw"
                   /\ Contains(mOut.err.msg, mLog[n].file)
            /\ mPc = "returned" =>
                   /\ n = Len(sorted)
                   /\ \A i \in 1..n : mLog[i].ok
                   /\ mOut.kind = "db"

\* the second of three migrations failed, in a directory not listed in order
SecondOfThreeFailed ==
    /\ mPc = "threw"
    /\ Len(mLog) = 2
    /\ Len(mFiles) = 3
    /\ mEntries # mFiles

----------------------------------------------------------------------------
(* Properties of the workers environment *)

\* C9: the env object the mocked module exposes and the env object
\* useWorkersEnv returned are one object through every lifecycle event, and
\* after a beforeEach that object holds exactly what its createEnv made.
EnvReferenceStable ==
    /\ \A i \in 1..Len(eRegs) :
           (eMocked /\ ~eRegs[i].over) => eRegs[i].env = eModule.env
    /\ eLast.ev = "beforeEach" =>
           eHeap[eRegs[eLast.reg].env] = eRegs[eLast.reg].createEnv

====
